---------------------------- MODULE Spec2Model ----------------------------
(***************************************************************************)
(* Clamped (saturating) arithmetic of open-vm-tools, lib/include/clamped.h *)
(*                                                                         *)
(* The six inline functions Clamped_SAdd32, Clamped_U64To32,               *)
(* Clamped_S64To32, Clamped_UMul32, Clamped_SMul32 and Clamped_UAdd32 are  *)
(* modelled at their real widths.  TLC's integers are 32 bits wide, so a   *)
(* C integer is held as the mathematical integer it denotes, written as a  *)
(* little-endian sequence of NLimbs digits in base 256: the digits         *)
(* 1..NLimbs-1 are bytes, the last digit is signed and carries the sign.   *)
(* Fixed-width C arithmetic is the exact arithmetic followed by the        *)
(* truncation to the width of the type.                                    *)
(***************************************************************************)
EXTENDS Integers, Sequences, FiniteSets, TLC

\* Inputs are drawn within this distance of each boundary of the types.
Near == 2

\* Number of execution contexts that call the functions concurrently.
NumCtx == 2

\* One byte, the unit of the fixed-width types int32, uint32, int64, uint64.
Base == 256

\* Digits of an integer: eight bytes (64 bits) and one signed digit above them.
NLimbs == 9

Limbs == 1..NLimbs

---------------------------------------------------------------------------
(* Exact integer arithmetic on digit sequences.                            *)

RECURSIVE NormFrom(_, _, _)
\* Carry propagation from digit i on, with carry c coming in.
NormFrom(s, i, c) ==
    IF i = NLimbs
    THEN << s[i] + c >>
    ELSE << (s[i] + c) % Base >> \o NormFrom(s, i + 1, (s[i] + c) \div Base)

\* The canonical digit sequence of the integer whose (unnormalised) digits are s.
Norm(s) == NormFrom(s, 1, 0)

\* The integer n, for an n that TLC can hold.
FromInt(n) == Norm([i \in Limbs |-> IF i = 1 THEN n ELSE 0])

\* The non-negative integer with the given bytes, least significant first.
FromBytes(bs) == [i \in Limbs |-> IF i <= Len(bs) THEN bs[i] ELSE 0]

Zero == FromInt(0)

One == FromInt(1)

ZAdd(x, y) == Norm([i \in Limbs |-> x[i] + y[i]])

ZNeg(x) == Norm([i \in Limbs |-> 0 - x[i]])

ZSub(x, y) == Norm([i \in Limbs |-> x[i] - y[i]])

RECURSIVE LessFrom(_, _, _)
LessFrom(x, y, i) ==
    IF i = 0 THEN FALSE
    ELSE IF x[i] # y[i] THEN x[i] < y[i]
    ELSE LessFrom(x, y, i - 1)

\* x < y
ZLess(x, y) == LessFrom(x, y, NLimbs)

\* x <= y
ZLeq(x, y) == ~ZLess(y, x)

ZAbs(x) == IF ZLess(x, Zero) THEN ZNeg(x) ELSE x

RECURSIVE ColumnSum(_, _, _, _)
\* Sum of x[i] * y[k + 1 - i] for i in 1..n.
ColumnSum(x, y, k, n) ==
    IF n = 0 THEN 0 ELSE x[n] * y[k + 1 - n] + ColumnSum(x, y, k, n - 1)

\* The product of two non-negative integers below 2^36 (schoolbook columns).
MulNat(x, y) == Norm([k \in Limbs |-> ColumnSum(x, y, k, k)])

\* The exact product x * y, for |x|, |y| below 2^36.
ZMul(x, y) ==
    IF ZLess(x, Zero) = ZLess(y, Zero)
    THEN MulNat(ZAbs(x), ZAbs(y))
    ELSE ZNeg(MulNat(ZAbs(x), ZAbs(y)))

---------------------------------------------------------------------------
(* Conversion to the fixed-width types (vm_basic_types.h).                 *)

\* Conversion to the unsigned type of n bytes: the value modulo 2^(8n).
ToUnsigned(n, x) == [i \in Limbs |-> IF i <= n THEN x[i] ELSE 0]

\* Conversion to the signed type of n bytes: the low n bytes, sign-extended.
ToSigned(n, x) ==
    [i \in Limbs |->
        IF i <= n THEN x[i]
        ELSE IF x[n] < Base \div 2 THEN 0
        ELSE IF i = NLimbs THEN 0 - 1
        ELSE Base - 1]

\* (uint32)x
U32(x) == ToUnsigned(4, x)

\* (int32)x
S32(x) == ToSigned(4, x)

\* (uint64)x
U64(x) == ToUnsigned(8, x)

\* (int64)x
S64(x) == ToSigned(8, x)

MAX_INT32 == S32(FromBytes(<<255, 255, 255, 127>>))

MIN_INT32 == S32(FromBytes(<<0, 0, 0, 128>>))

MAX_UINT32 == U32(FromBytes(<<255, 255, 255, 255>>))

\* The value of a location that nothing has been stored to.
NoValue == << >>

---------------------------------------------------------------------------
(* The functions of clamped.h.  A function is given the content out0 of    *)
(* the caller's output location before the call and yields the content     *)
(* after it, with the returned flag.                                       *)

\* What a build can make of an evaluation whose behaviour C leaves undefined
\* (an int32 or int64 operation whose exact result the type cannot hold):
\*   "wrap"   the machine instruction's two's-complement result is used;
\*   "elide"  the compiler assumes no overflow and folds away the tests that
\*            only an overflow could make true;
\*   "trap"   the operation traps and the call never returns.
Builds == {"wrap", "elide", "trap"}

\* x is a value of int32, uint32, int64, uint64.
InS32(x) == x = S32(x)

InU32(x) == x = U32(x)

InS64(x) == x = S64(x)

InU64(x) == x = U64(x)

\* Clamped_SAdd32, "result = a + b": the registers hold the wrapped sum; the
\* evaluation overflows when the exact sum is no int32.
SAdd32_sum(a, b) ==
    [val |-> S32(ZAdd(a, b)), overflow |-> ~InS32(ZAdd(a, b))]

\* SAdd32_clamp without the test for an overflow in the negative direction.
SAdd32_clamp_NoNegTest(out0, result, a, b, folded) ==
    IF ~folded /\ ZLess(Zero, b) /\ ZLess(result, a)
    THEN [out |-> MAX_INT32, ret |-> FALSE]
    ELSE [out |-> result, ret |-> TRUE]

\* Clamped_SAdd32 after the sum: the two tests and the stores.  folded: the
\* build has folded both tests to FALSE.
SAdd32_clamp(out0, result, a, b, folded) ==
    IF ~folded /\ ZLess(Zero, b) /\ ZLess(result, a)
    THEN [out |-> MAX_INT32, ret |-> FALSE]
    ELSE IF ~folded /\ ZLess(b, Zero) /\ ZLess(a, result)
    THEN [out |-> MIN_INT32, ret |-> FALSE]
    ELSE [out |-> result, ret |-> TRUE]

Clamped_SAdd32(out0, a, b, build) ==
    LET s == SAdd32_sum(a, b)
        r == SAdd32_clamp(out0, s.val, a, b, s.overflow /\ build = "elide")
    IN  IF s.overflow /\ build = "trap"
        THEN [out |-> out0, ret |-> FALSE, returned |-> FALSE,
              ub |-> build, wide |-> NoValue]
        ELSE [out |-> r.out, ret |-> r.ret, returned |-> TRUE,
              ub |-> IF s.overflow THEN build ELSE "none", wide |-> NoValue]

\* Clamped_U64To32, "uint32 clamped = (uint32)a".
U64To32_cast(a) == U32(a)

\* U64To32_clamp that stores the truncated value when it reports an overflow.
U64To32_clamp_Truncate(out0, a, clamped) ==
    [out |-> clamped, ret |-> a = U64(clamped)]

\* Clamped_U64To32 after the cast: clamped is converted to uint64 for the test.
U64To32_clamp(out0, a, clamped) ==
    IF a # U64(clamped)
    THEN [out |-> MAX_UINT32, ret |-> FALSE]
    ELSE [out |-> clamped, ret |-> TRUE]

Clamped_U64To32(out0, a) ==
    LET r == U64To32_clamp(out0, a, U64To32_cast(a))
    IN  [out |-> r.out, ret |-> r.ret, returned |-> TRUE,
         ub |-> "none", wide |-> a]

\* Clamped_S64To32, "int32 clamped = (int32)a".
S64To32_cast(a) == S32(a)

\* S64To32_clamp with the local declared uint32: the test zero-extends it.
S64To32_clamp_Unsigned(out0, a, clamped) ==
    IF a # S64(U32(clamped))
    THEN [out |-> IF ZLess(a, Zero) THEN MIN_INT32 ELSE MAX_INT32, ret |-> FALSE]
    ELSE [out |-> clamped, ret |-> TRUE]

\* Clamped_S64To32 after the cast: clamped is converted to int64 for the test.
S64To32_clamp(out0, a, clamped) ==
    IF a # S64(clamped)
    THEN [out |-> IF ZLess(a, Zero) THEN MIN_INT32 ELSE MAX_INT32, ret |-> FALSE]
    ELSE [out |-> clamped, ret |-> TRUE]

\* Clamped_S64To32 that returns FALSE without storing to *out.
Clamped_S64To32_NoStore(out0, a) ==
    LET r == S64To32_clamp(out0, a, S64To32_cast(a))
    IN  [out |-> IF r.ret THEN r.out ELSE out0, ret |-> r.ret, returned |-> TRUE,
         ub |-> "none", wide |-> a]

Clamped_S64To32(out0, a) ==
    LET r == S64To32_clamp(out0, a, S64To32_cast(a))
    IN  [out |-> r.out, ret |-> r.ret, returned |-> TRUE,
         ub |-> "none", wide |-> a]

\* UMul32_product without the cast: "(uint64)(a * b)", a 32-bit product.
UMul32_product_Narrow(a, b) == U64(U32(ZMul(a, b)))

\* Clamped_UMul32, "(uint64)a * b": b is converted to uint64 too and the
\* product is taken modulo 2^64.
UMul32_product(a, b) == U64(ZMul(U64(a), U64(b)))

Clamped_UMul32(out0, a, b) == Clamped_U64To32(out0, UMul32_product(a, b))

\* SMul32_product without the cast: "(int64)(a * b)", a 32-bit product.
SMul32_product_Narrow(a, b) ==
    [val |-> S64(S32(ZMul(a, b))), overflow |-> ~InS32(ZMul(a, b))]

\* Clamped_SMul32, "(int64)a * b": b is converted to int64 too; the
\* evaluation overflows when the exact product is no int64.
SMul32_product(a, b) ==
    [val |-> S64(ZMul(S64(a), S64(b))),
     overflow |-> ~InS64(ZMul(S64(a), S64(b)))]

Clamped_SMul32(out0, a, b, build) ==
    LET p == SMul32_product(a, b)
        r == Clamped_S64To32(out0, p.val)
    IN  IF p.overflow /\ build = "trap"
        THEN [out |-> out0, ret |-> FALSE, returned |-> FALSE,
              ub |-> build, wide |-> NoValue]
        ELSE [r EXCEPT !.ub = IF p.overflow THEN build ELSE "none"]

\* Clamped_UAdd32, "uint32 c = a + b": the sum modulo 2^32.
UAdd32_sum(a, b) == U32(ZAdd(a, b))

\* UAdd32_overflowed with <= for <.
UAdd32_overflowed_Leq(c, a, b) == ZLeq(c, a) \/ ZLeq(c, b)

\* Clamped_UAdd32, the test "c < a || c < b".
UAdd32_overflowed(c, a, b) == ZLess(c, a) \/ ZLess(c, b)

\* Clamped_UAdd32 after the sum.
UAdd32_clamp(out0, c, a, b) ==
    IF UAdd32_overflowed(c, a, b)
    THEN [out |-> MAX_UINT32, ret |-> FALSE]
    ELSE [out |-> c, ret |-> TRUE]

Clamped_UAdd32(out0, a, b) ==
    LET r == UAdd32_clamp(out0, UAdd32_sum(a, b), a, b)
    IN  [out |-> r.out, ret |-> r.ret, returned |-> TRUE,
         ub |-> "none", wide |-> NoValue]

---------------------------------------------------------------------------
(* Inputs: the values within Near of the boundaries of the types, and the  *)
(* values around the square roots of the 32-bit limits.                    *)

Around(c) == {ZAdd(c, FromInt(d)) : d \in (0 - Near)..Near}

MAX_INT64 == S64(FromBytes(<<255, 255, 255, 255, 255, 255, 255, 127>>))

MIN_INT64 == S64(FromBytes(<<0, 0, 0, 0, 0, 0, 0, 128>>))

MAX_UINT64 == U64(FromBytes(<<255, 255, 255, 255, 255, 255, 255, 255>>))

Int32Inputs ==
    {x \in Around(MIN_INT32) \cup Around(Zero) \cup Around(MAX_INT32)
           \cup {FromInt(46341), FromInt(-46341), FromInt(65536)} : InS32(x)}

Uint32Inputs ==
    {x \in Around(Zero) \cup Around(MAX_INT32) \cup Around(MAX_UINT32)
           \cup {FromInt(65535), FromInt(65536)} : InU32(x)}

Int64Inputs ==
    {x \in Around(MIN_INT64) \cup Around(ZNeg(MAX_UINT32)) \cup Around(MIN_INT32)
           \cup Around(Zero) \cup Around(MAX_INT32) \cup Around(MAX_UINT32)
           \cup Around(MAX_INT64) : InS64(x)}

Uint64Inputs ==
    {x \in Around(Zero) \cup Around(MAX_INT32) \cup Around(MAX_UINT32)
           \cup Around(MAX_UINT64) : InU64(x)}

---------------------------------------------------------------------------
(* State.  One caller makes whole calls (Spec); NumCtx execution contexts  *)
(* make calls statement by statement, interleaved (SpecConc).              *)

VARIABLES
    op,        \* the function the caller called last, "none" before any call
    a, b,      \* its arguments (b is NoValue for the conversions)
    wide,      \* the 64-bit value handed to the narrowing check, or NoValue
    out,       \* the caller's output location after the call
    ret,       \* the returned flag
    returned,  \* the call has returned
    ub,        \* "none", or what the build made of an undefined evaluation
    prev,      \* the call the caller has kept to compare the next one with
    ctx,       \* per context: position, call, output location, returned flag
    frame      \* per stack frame: the parameter and the local of the callee

seqVars == <<op, a, b, wide, out, ret, returned, ub, prev>>

concVars == <<ctx, frame>>

vars == <<seqVars, concVars>>

Ctx == 1..NumCtx

\* A context that is not in a call.
IdleCtx ==
    [pc |-> "idle", op |-> "none", a |-> NoValue, b |-> NoValue,
     out |-> NoValue, ret |-> FALSE, ub |-> "none"]

\* A frame no call is using.
DeadFrame == [arg |-> Zero, tmp |-> Zero]

\* No call kept.
NoCall ==
    [op |-> "none", a |-> NoValue, b |-> NoValue, out |-> NoValue,
     ret |-> FALSE, ub |-> "none"]

SeqInit ==
    /\ op = "none"
    /\ a = NoValue
    /\ b = NoValue
    /\ wide = NoValue
    /\ out = NoValue
    /\ ret = FALSE
    /\ returned = FALSE
    /\ ub = "none"
    /\ prev = NoCall

ConcInit ==
    /\ ctx = [p \in Ctx |-> IdleCtx]
    /\ frame = [p \in Ctx |-> DeadFrame]

Init == SeqInit /\ ConcInit

---------------------------------------------------------------------------
(* One caller: each action is one whole call, from a fresh output location.*)

\* The caller is not in a call and holds no result.
Ready == op = "none"

\* The caller's state after a call that gave r.
Result(r) ==
    /\ wide' = r.wide
    /\ out' = r.out
    /\ ret' = r.ret
    /\ returned' = r.returned
    /\ ub' = r.ub
    /\ UNCHANGED <<prev, concVars>>

Call_SAdd32 ==
    \E x \in Int32Inputs, y \in Int32Inputs, build \in Builds :
        /\ Ready
        /\ prev = NoCall
        /\ op' = "Clamped_SAdd32"
        /\ a' = x
        /\ b' = y
        /\ Result(Clamped_SAdd32(NoValue, x, y, build))

Call_U64To32 ==
    \E x \in Uint64Inputs :
        /\ Ready
        /\ prev = NoCall
        /\ op' = "Clamped_U64To32"
        /\ a' = x
        /\ b' = NoValue
        /\ Result(Clamped_U64To32(NoValue, x))

Call_S64To32 ==
    \E x \in Int64Inputs :
        /\ Ready
        /\ prev = NoCall
        /\ op' = "Clamped_S64To32"
        /\ a' = x
        /\ b' = NoValue
        /\ Result(Clamped_S64To32(NoValue, x))

Call_UMul32 ==
    \E x \in Uint32Inputs, y \in Uint32Inputs :
        /\ Ready
        /\ prev = NoCall
        /\ op' = "Clamped_UMul32"
        /\ a' = x
        /\ b' = y
        /\ Result(Clamped_UMul32(NoValue, x, y))

Call_SMul32 ==
    \E x \in Int32Inputs, y \in Int32Inputs, build \in Builds :
        /\ Ready
        /\ prev = NoCall
        /\ op' = "Clamped_SMul32"
        /\ a' = x
        /\ b' = y
        /\ Result(Clamped_SMul32(NoValue, x, y, build))

Call_UAdd32 ==
    \E x \in Uint32Inputs, y \in Uint32Inputs :
        /\ Ready
        /\ prev = NoCall
        /\ op' = "Clamped_UAdd32"
        /\ a' = x
        /\ b' = y
        /\ Result(Clamped_UAdd32(NoValue, x, y))

\* The caller calls Clamped_SAdd32 again with the arguments of the kept call
\* exchanged.
Call_SAdd32_Swapped ==
    \E build \in Builds :
        /\ Ready
        /\ prev.op = "Clamped_SAdd32"
        /\ op' = "Clamped_SAdd32"
        /\ a' = prev.b
        /\ b' = prev.a
        /\ Result(Clamped_SAdd32(NoValue, prev.b, prev.a, build))

\* The caller calls Clamped_UAdd32 again with the arguments of the kept call
\* exchanged.
Call_UAdd32_Swapped ==
    /\ Ready
    /\ prev.op = "Clamped_UAdd32"
    /\ op' = "Clamped_UAdd32"
    /\ a' = prev.b
    /\ b' = prev.a
    /\ Result(Clamped_UAdd32(NoValue, prev.b, prev.a))

\* The caller keeps the result of an addition that returned, to compare it
\* with the result of the next call.
Keep ==
    /\ op \in {"Clamped_SAdd32", "Clamped_UAdd32"}
    /\ returned
    /\ prev = NoCall
    /\ prev' = [op |-> op, a |-> a, b |-> b, out |-> out, ret |-> ret, ub |-> ub]
    /\ op' = "none"
    /\ a' = NoValue
    /\ b' = NoValue
    /\ wide' = NoValue
    /\ out' = NoValue
    /\ ret' = FALSE
    /\ returned' = FALSE
    /\ ub' = "none"
    /\ UNCHANGED concVars

\* The caller drops the result of a call that returned; its next call starts
\* from a fresh output location.  A call that trapped has ended the program.
Reuse ==
    /\ ~Ready
    /\ returned
    /\ op' = "none"
    /\ a' = NoValue
    /\ b' = NoValue
    /\ wide' = NoValue
    /\ out' = NoValue
    /\ ret' = FALSE
    /\ returned' = FALSE
    /\ ub' = "none"
    /\ prev' = NoCall
    /\ UNCHANGED concVars

Next ==
    \/ Call_SAdd32
    \/ Call_U64To32
    \/ Call_S64To32
    \/ Call_UMul32
    \/ Call_SMul32
    \/ Call_UAdd32
    \/ Call_SAdd32_Swapped
    \/ Call_UAdd32_Swapped
    \/ Keep
    \/ Reuse

Spec == Init /\ [][Next]_vars

---------------------------------------------------------------------------
(* NumCtx contexts: each action is one statement of one context's call.    *)
(* The parameters and the local of a callee (result, clamped, c) live in   *)
(* the frame of the call; the output location is the calling context's.    *)

\* The calls the contexts make: for each function one that clamps and one
\* that does not.
ConcCalls ==
    {[op |-> "Clamped_SAdd32", a |-> MAX_INT32, b |-> One],
     [op |-> "Clamped_SAdd32", a |-> MIN_INT32, b |-> One],
     [op |-> "Clamped_U64To32", a |-> ZAdd(MAX_UINT32, One), b |-> NoValue],
     [op |-> "Clamped_U64To32", a |-> One, b |-> NoValue],
     [op |-> "Clamped_S64To32", a |-> ZSub(MIN_INT32, One), b |-> NoValue],
     [op |-> "Clamped_S64To32", a |-> FromInt(-1), b |-> NoValue],
     [op |-> "Clamped_UMul32", a |-> MAX_UINT32, b |-> FromInt(2)],
     [op |-> "Clamped_UMul32", a |-> FromInt(65535), b |-> FromInt(3)],
     [op |-> "Clamped_SMul32", a |-> FromInt(-1), b |-> MIN_INT32],
     [op |-> "Clamped_SMul32", a |-> FromInt(-1), b |-> FromInt(46341)],
     [op |-> "Clamped_UAdd32", a |-> MAX_UINT32, b |-> One],
     [op |-> "Clamped_UAdd32", a |-> MAX_INT32, b |-> One]}

\* The first statement of each function.
Entry(name) ==
    CASE name = "Clamped_SAdd32" -> "SAdd32_sum"
      [] name = "Clamped_U64To32" -> "U64To32_cast"
      [] name = "Clamped_S64To32" -> "S64To32_cast"
      [] name = "Clamped_UMul32" -> "UMul32_product"
      [] name = "Clamped_SMul32" -> "SMul32_product"
      [] name = "Clamped_UAdd32" -> "UAdd32_sum"

\* A frame whose storage every call shares, as that of static locals would be.
FrameOf_Static(p) == 1

\* The frame of the call context p is in: automatic storage, one per call.
FrameOf(p) == p

\* Context p is at statement s.
At(p, s) == ctx[p].pc = s

\* Context p moves to statement s, the build having made u of an undefined
\* evaluation ("none": there was none).
Goto(p, s, u) ==
    ctx' = [ctx EXCEPT ![p].pc = s,
                       ![p].ub = IF u = "none" THEN @ ELSE u]

\* Context p returns r.ret with r.out in its output location; its frame dies.
Return(p, r) ==
    /\ ctx' = [ctx EXCEPT ![p].pc = "done", ![p].out = r.out, ![p].ret = r.ret]
    /\ frame' = [frame EXCEPT ![FrameOf(p)] = DeadFrame]

\* Context p calls a function from a fresh output location.  The conversions
\* take their 64-bit parameter from the caller.
Enter(p) ==
    \E c \in ConcCalls :
        /\ At(p, "idle")
        /\ ctx' = [ctx EXCEPT ![p] = [pc |-> Entry(c.op), op |-> c.op,
                                      a |-> c.a, b |-> c.b, out |-> NoValue,
                                      ret |-> FALSE, ub |-> "none"]]
        /\ frame' = [frame EXCEPT ![FrameOf(p)] =
                        [arg |-> IF c.b = NoValue THEN c.a ELSE Zero,
                         tmp |-> Zero]]
        /\ UNCHANGED seqVars

\* Clamped_SAdd32: result = a + b.
Step_SAdd32_sum(p) ==
    \E build \in Builds :
        LET s == SAdd32_sum(ctx[p].a, ctx[p].b)
        IN  /\ At(p, "SAdd32_sum")
            /\ IF s.overflow /\ build = "trap"
               THEN /\ Goto(p, "trapped", build)
                    /\ UNCHANGED frame
               ELSE /\ Goto(p, "SAdd32_clamp",
                            IF s.overflow THEN build ELSE "none")
                    /\ frame' = [frame EXCEPT ![FrameOf(p)].tmp = s.val]
            /\ UNCHANGED seqVars

\* Clamped_SAdd32: the tests, the store and the return.
Step_SAdd32_clamp(p) ==
    /\ At(p, "SAdd32_clamp")
    /\ Return(p, SAdd32_clamp(ctx[p].out, frame[FrameOf(p)].tmp,
                              ctx[p].a, ctx[p].b, ctx[p].ub = "elide"))
    /\ UNCHANGED seqVars

\* Clamped_U64To32: uint32 clamped = (uint32)a.
Step_U64To32_cast(p) ==
    /\ At(p, "U64To32_cast")
    /\ Goto(p, "U64To32_clamp", "none")
    /\ frame' = [frame EXCEPT ![FrameOf(p)].tmp =
                    U64To32_cast(frame[FrameOf(p)].arg)]
    /\ UNCHANGED seqVars

\* Clamped_U64To32: the test, the store and the return.
Step_U64To32_clamp(p) ==
    /\ At(p, "U64To32_clamp")
    /\ Return(p, U64To32_clamp(ctx[p].out, frame[FrameOf(p)].arg,
                               frame[FrameOf(p)].tmp))
    /\ UNCHANGED seqVars

\* Clamped_S64To32: int32 clamped = (int32)a.
Step_S64To32_cast(p) ==
    /\ At(p, "S64To32_cast")
    /\ Goto(p, "S64To32_clamp", "none")
    /\ frame' = [frame EXCEPT ![FrameOf(p)].tmp =
                    S64To32_cast(frame[FrameOf(p)].arg)]
    /\ UNCHANGED seqVars

\* Clamped_S64To32: the test, the store and the return.
Step_S64To32_clamp(p) ==
    /\ At(p, "S64To32_clamp")
    /\ Return(p, S64To32_clamp(ctx[p].out, frame[FrameOf(p)].arg,
                               frame[FrameOf(p)].tmp))
    /\ UNCHANGED seqVars

\* Clamped_UMul32: the product becomes the parameter of Clamped_U64To32.
Step_UMul32_product(p) ==
    /\ At(p, "UMul32_product")
    /\ Goto(p, "U64To32_cast", "none")
    /\ frame' = [frame EXCEPT ![FrameOf(p)].arg =
                    UMul32_product(ctx[p].a, ctx[p].b)]
    /\ UNCHANGED seqVars

\* Clamped_SMul32: the product becomes the parameter of Clamped_S64To32.
Step_SMul32_product(p) ==
    \E build \in Builds :
        LET m == SMul32_product(ctx[p].a, ctx[p].b)
        IN  /\ At(p, "SMul32_product")
            /\ IF m.overflow /\ build = "trap"
               THEN /\ Goto(p, "trapped", build)
                    /\ UNCHANGED frame
               ELSE /\ Goto(p, "S64To32_cast",
                            IF m.overflow THEN build ELSE "none")
                    /\ frame' = [frame EXCEPT ![FrameOf(p)].arg = m.val]
            /\ UNCHANGED seqVars

\* Clamped_UAdd32: uint32 c = a + b.
Step_UAdd32_sum(p) ==
    /\ At(p, "UAdd32_sum")
    /\ Goto(p, "UAdd32_clamp", "none")
    /\ frame' = [frame EXCEPT ![FrameOf(p)].tmp =
                    UAdd32_sum(ctx[p].a, ctx[p].b)]
    /\ UNCHANGED seqVars

\* Clamped_UAdd32: the test, the store and the return.
Step_UAdd32_clamp(p) ==
    /\ At(p, "UAdd32_clamp")
    /\ Return(p, UAdd32_clamp(ctx[p].out, frame[FrameOf(p)].tmp,
                              ctx[p].a, ctx[p].b))
    /\ UNCHANGED seqVars

\* Context p has used the result of its call and is free to call again.
Leave(p) ==
    /\ At(p, "done")
    /\ ctx' = [ctx EXCEPT ![p] = IdleCtx]
    /\ UNCHANGED <<frame, seqVars>>

NextConc ==
    \E p \in Ctx :
        \/ Enter(p)
        \/ Step_SAdd32_sum(p)
        \/ Step_SAdd32_clamp(p)
        \/ Step_U64To32_cast(p)
        \/ Step_U64To32_clamp(p)
        \/ Step_S64To32_cast(p)
        \/ Step_S64To32_clamp(p)
        \/ Step_UMul32_product(p)
        \/ Step_SMul32_product(p)
        \/ Step_UAdd32_sum(p)
        \/ Step_UAdd32_clamp(p)
        \/ Leave(p)

SpecConc == Init /\ [][NextConc]_vars

---------------------------------------------------------------------------
(* Properties of the whole calls (Spec).                                   *)

Signed32Ops == {"Clamped_SAdd32", "Clamped_S64To32", "Clamped_SMul32"}

Unsigned32Ops == {"Clamped_U64To32", "Clamped_UMul32", "Clamped_UAdd32"}

\* C1: with the 32-bit sum taken as two's-complement wraparound (no undefined
\* evaluation, or a build that wraps), Clamped_SAdd32(a, b) returns TRUE with
\* the exact sum when the sum is an int32, FALSE with MAX_INT32 when the sum
\* is above MAX_INT32, and FALSE with MIN_INT32 when it is below MIN_INT32.
C1_SAdd32Contract ==
    (op = "Clamped_SAdd32" /\ ub \in {"none", "wrap"}) =>
        LET s == ZAdd(a, b)
        IN  /\ returned
            /\ (ZLeq(MIN_INT32, s) /\ ZLeq(s, MAX_INT32)) => (ret /\ out = s)
            /\ ZLess(MAX_INT32, s) => (~ret /\ out = MAX_INT32)
            /\ ZLess(s, MIN_INT32) => (~ret /\ out = MIN_INT32)

\* signedAdd32(INT32_MAX, 1) = (INT32_MAX, false), the sum having wrapped.
C1_Witness ==
    /\ op = "Clamped_SAdd32"
    /\ a = MAX_INT32
    /\ b = One
    /\ ub = "wrap"
    /\ returned
    /\ out = MAX_INT32
    /\ ~ret

\* C2: in Clamped_UAdd32(a, b), with c the sum modulo 2^32, the test
\* (c < a or c < b) holds exactly when the exact sum exceeds MAX_UINT32; the
\* call returns TRUE with the exact sum when that sum is at most MAX_UINT32
\* and FALSE with MAX_UINT32 otherwise.
C2_UAdd32Contract ==
    op = "Clamped_UAdd32" =>
        LET s == ZAdd(a, b)
        IN  /\ returned
            /\ UAdd32_overflowed(UAdd32_sum(a, b), a, b) <=> ZLess(MAX_UINT32, s)
            /\ ZLeq(s, MAX_UINT32) => (ret /\ out = s)
            /\ ZLess(MAX_UINT32, s) => (~ret /\ out = MAX_UINT32)

\* unsignedAdd32(UINT32_MAX, 1) = (UINT32_MAX, false).
C2_Witness ==
    /\ op = "Clamped_UAdd32"
    /\ a = MAX_UINT32
    /\ b = One
    /\ returned
    /\ out = MAX_UINT32
    /\ ~ret

\* C3: Clamped_S64To32(a) returns TRUE with a value that sign-extends back to
\* a when a is an int32, FALSE with MAX_INT32 when a is above MAX_INT32 and
\* FALSE with MIN_INT32 when a is below MIN_INT32: the clamp the sign test
\* chooses is the bound nearest to a.
C3_S64To32Contract ==
    op = "Clamped_S64To32" =>
        /\ returned
        /\ (ZLeq(MIN_INT32, a) /\ ZLeq(a, MAX_INT32)) =>
               (ret /\ InS32(out) /\ S64(out) = a)
        /\ ZLess(MAX_INT32, a) => (~ret /\ out = MAX_INT32)
        /\ ZLess(a, MIN_INT32) => (~ret /\ out = MIN_INT32)

\* narrowS64To32(-0x80000001) = (INT32_MIN, false).
C3_Witness ==
    /\ op = "Clamped_S64To32"
    /\ a = ZSub(MIN_INT32, One)
    /\ returned
    /\ out = MIN_INT32
    /\ ~ret

\* C4: Clamped_U64To32(a) returns TRUE with a value that zero-extends back to
\* a when a is at most MAX_UINT32 and FALSE with MAX_UINT32 otherwise: *out
\* is min(a, MAX_UINT32) and the flag is TRUE iff a <= MAX_UINT32.
C4_U64To32Contract ==
    op = "Clamped_U64To32" =>
        /\ returned
        /\ ret <=> ZLeq(a, MAX_UINT32)
        /\ ZLeq(a, MAX_UINT32) => (InU32(out) /\ U64(out) = a)
        /\ ZLess(MAX_UINT32, a) => out = MAX_UINT32
        /\ out = IF ZLess(a, MAX_UINT32) THEN a ELSE MAX_UINT32

\* narrowU64To32(0x100000000) = (UINT32_MAX, false).
C4_Witness ==
    /\ op = "Clamped_U64To32"
    /\ a = ZAdd(MAX_UINT32, One)
    /\ returned
    /\ out = MAX_UINT32
    /\ ~ret

\* C5: in Clamped_SMul32(a, b) the exact product p is an int64, so the 64-bit
\* multiplication does not overflow and hands p to the narrowing check; the
\* call yields what Clamped_S64To32 yields for p: (p, TRUE) when p is an
\* int32, (MAX_INT32, FALSE) above, (MIN_INT32, FALSE) below.
C5_SMul32Contract ==
    op = "Clamped_SMul32" =>
        LET p == ZMul(a, b)
            n == Clamped_S64To32(NoValue, p)
        IN  /\ ZLeq(MIN_INT64, p) /\ ZLeq(p, MAX_INT64)
            /\ ub = "none"
            /\ returned
            /\ wide = p
            /\ out = n.out /\ ret = n.ret
            /\ (ZLeq(MIN_INT32, p) /\ ZLeq(p, MAX_INT32)) => (ret /\ out = p)
            /\ ZLess(MAX_INT32, p) => (~ret /\ out = MAX_INT32)
            /\ ZLess(p, MIN_INT32) => (~ret /\ out = MIN_INT32)

\* signedMul32(-1, INT32_MIN) = (INT32_MAX, false).
C5_Witness ==
    /\ op = "Clamped_SMul32"
    /\ a = FromInt(-1)
    /\ b = MIN_INT32
    /\ returned
    /\ out = MAX_INT32
    /\ ~ret

\* C6: in Clamped_UMul32(a, b) the exact product p is below 2^64, so the
\* 64-bit multiplication does not wrap and hands p to the narrowing check;
\* the call yields what Clamped_U64To32 yields for p: (p, TRUE) when p is at
\* most MAX_UINT32 and (MAX_UINT32, FALSE) otherwise.
C6_UMul32Contract ==
    op = "Clamped_UMul32" =>
        LET p == ZMul(a, b)
            n == Clamped_U64To32(NoValue, p)
        IN  /\ ZLeq(Zero, p) /\ ZLeq(p, MAX_UINT64)
            /\ returned
            /\ wide = p
            /\ out = n.out /\ ret = n.ret
            /\ ZLeq(p, MAX_UINT32) => (ret /\ out = p)
            /\ ZLess(MAX_UINT32, p) => (~ret /\ out = MAX_UINT32)

\* unsignedMul32(0xFFFFFFFF, 2) = (UINT32_MAX, false).
C6_Witness ==
    /\ op = "Clamped_UMul32"
    /\ a = MAX_UINT32
    /\ b = FromInt(2)
    /\ returned
    /\ out = MAX_UINT32
    /\ ~ret

\* C7: the additions commute: a call of Clamped_UAdd32 or Clamped_SAdd32 and
\* the call of the same function with the two arguments exchanged produce the
\* same *out and the same returned flag.
C7_AddCommutes ==
    (/\ op \in {"Clamped_SAdd32", "Clamped_UAdd32"}
     /\ prev.op = op
     /\ a = prev.b
     /\ b = prev.a) =>
        /\ returned
        /\ out = prev.out
        /\ ret = prev.ret

\* Beside C7: the two calls do agree when no undefined sum is evaluated, and
\* when the build makes the same of the undefined sum in both.
C7_CommutesInOneBuild ==
    (/\ op \in {"Clamped_SAdd32", "Clamped_UAdd32"}
     /\ prev.op = op
     /\ a = prev.b
     /\ b = prev.a
     /\ returned) =>
        /\ ub = "none" <=> prev.ub = "none"
        /\ ub = prev.ub => (out = prev.out /\ ret = prev.ret)

\* C8: every call that returns has stored to *out, on the FALSE path as on
\* the TRUE path; the stored value is a value of the output type, and when
\* the flag is FALSE it is the maximum or the minimum of that type.
C8_OutAssignedAndClamped ==
    (op # "none" /\ returned) =>
        /\ out # NoValue
        /\ op \in Unsigned32Ops =>
               IF out = NoValue THEN FALSE
               ELSE /\ ZLeq(Zero, out) /\ ZLeq(out, MAX_UINT32)
                    /\ ~ret => out = MAX_UINT32
        /\ op \in Signed32Ops =>
               IF out = NoValue THEN FALSE
               ELSE /\ ZLeq(MIN_INT32, out) /\ ZLeq(out, MAX_INT32)
                    /\ ~ret => out \in {MIN_INT32, MAX_INT32}

\* A FALSE return whose *out holds the clamp: Clamped_S64To32(0x80000000).
C8_Witness ==
    /\ op = "Clamped_S64To32"
    /\ a = ZAdd(MAX_INT32, One)
    /\ returned
    /\ ~ret
    /\ out = MAX_INT32

\* C10: Clamped_SAdd32 never evaluates the 32-bit signed sum a + b when the
\* exact sum is no int32: no call of it evaluates an undefined operation, and
\* every call returns.
C10_NoOverflowingSignedAdd ==
    op = "Clamped_SAdd32" => (ub = "none" /\ returned)

---------------------------------------------------------------------------
(* Properties of the interleaved calls (SpecConc).                         *)

\* What the call name(x, y) yields when it runs alone, in a build that makes
\* u of an undefined evaluation.
Alone(name, x, y, u) ==
    CASE name = "Clamped_SAdd32" -> Clamped_SAdd32(NoValue, x, y, u)
      [] name = "Clamped_U64To32" -> Clamped_U64To32(NoValue, x)
      [] name = "Clamped_S64To32" -> Clamped_S64To32(NoValue, x)
      [] name = "Clamped_UMul32" -> Clamped_UMul32(NoValue, x, y)
      [] name = "Clamped_SMul32" -> Clamped_SMul32(NoValue, x, y, u)
      [] name = "Clamped_UAdd32" -> Clamped_UAdd32(NoValue, x, y)

\* C9: the functions are reentrant: however the calls of the contexts are
\* interleaved, a call that has returned has left in its context's output
\* location, and returned, what the same call with the same arguments yields
\* when it runs alone (in the same build), and a call traps only if it traps
\* alone; a context that is not in a call holds nothing a call has written.
C9_Reentrant ==
    \A p \in Ctx :
        LET c == ctx[p]
            r == Alone(c.op, c.a, c.b, c.ub)
        IN  /\ c.pc = "done" =>
                (r.returned /\ r.ub = c.ub /\ c.out = r.out /\ c.ret = r.ret)
            /\ c.pc = "trapped" => (~r.returned /\ c.out = NoValue)
            /\ c.pc = "idle" => c = IdleCtx

\* Two calls have returned from overlapping executions, one clamped and one
\* not, while a third context (if any) may be anywhere.
C9_Witness ==
    /\ ctx[1].pc = "done"
    /\ ctx[1].op = "Clamped_SMul32"
    /\ ctx[1].out = MAX_INT32
    /\ ~ctx[1].ret
    /\ ctx[2].pc = "done"
    /\ ctx[2].op = "Clamped_UAdd32"
    /\ ctx[2].out = ZAdd(MAX_INT32, One)
    /\ ctx[2].ret

===========================================================================
